---- MODULE Spec2Model ----
(***************************************************************************)
(* SysdigFalcoMonitor (dagda/analysis/runtime/sysdig_falco_monitor.py):    *)
(* pre_check(), run() with its tailing loop over the falco output file,    *)
(* and the collaborators they drive (docker driver, mongodb driver, the    *)
(* sensor process that appends to the output file).                        *)
(***************************************************************************)
EXTENDS Integers, Sequences, FiniteSets, TLC

\* ------------------------------------------------------------------ bounds
\* Number of records the sensor appends to the output file.
MaxRecords == 2
\* Number of iterations of the "while True" loop of run() that are explored.
MaxCycles == 3
\* Number of falcosecurity/falco:0.29.0 containers running before pre_check().
MaxPre == 1
\* Number of lines of the container logs given to the log parser.
MaxLogLines == 4

\* ------------------------------------------------- the falco output file
\* The file is a sequence of tokens.  A record is serialised by the sensor
\* as two tokens (the first and the second half of its JSON text) followed
\* by the newline token, so that a record can be observed half written.
NL == "\n"

Keys == {"A", "B", "H", "K", "R"}

OutputFields(cid, repo, tag) ==
    ("container.id" :> cid) @@ ("container.image.repository" :> repo)
        @@ ("container.image.tag" :> tag)

\* The JSON value each serialised record parses to.
Doc(k) ==
    CASE k = "A" -> \* complete record of a container, with an image tag
           [output_fields |-> OutputFields("abc", "nginx", "1.21"),
            output |-> "X", priority |-> "WARNING", rule |-> "R1", time |-> "t1"]
      [] k = "B" -> \* complete record of a container, without an image tag
           [output_fields |-> ("container.id" :> "def")
                               @@ ("container.image.repository" :> "redis"),
            output |-> "Y", priority |-> "ERROR", rule |-> "R2", time |-> "t2"]
      [] k = "H" -> \* complete record of the host itself
           [output_fields |-> OutputFields("host", "none", "none"),
            output |-> "Z", priority |-> "NOTICE", rule |-> "R3", time |-> "t3"]
      [] k = "K" -> \* no output_fields
           [output |-> "X", priority |-> "WARNING", rule |-> "R1", time |-> "t4"]
      [] k = "R" -> \* container record without container.image.repository
           [output_fields |-> ("container.id" :> "abc"),
            output |-> "X", priority |-> "WARNING", rule |-> "R1", time |-> "t6"]

FirstHalf(k) == k \o "{"
SecondHalf(k) == k \o "}"
\* json.dumps as the sensor writes it: the text of a record, in two tokens.
Dump(k) == <<FirstHalf(k), SecondHalf(k)>>

IsFirstHalf(t) == \E k \in Keys : t = FirstHalf(k)
NumRecords(f) == Cardinality({i \in 1..Len(f) : IsFirstHalf(f[i])})
\* The sensor is in the middle of writing a record.
MidRecord(f) == Len(f) > 0 /\ IsFirstHalf(f[Len(f)])

\* ------------------------------------------------- reading and parsing
\* Index of the token that ends the line starting at token i: the first
\* newline at or after i, or the last token of the file when the last line
\* has no newline yet.
RECURSIVE LineEnd(_, _)
LineEnd(f, i) ==
    IF i >= Len(f) \/ f[i] = NL THEN i ELSE LineEnd(f, i + 1)

\* fbuf.seek(pos); fbuf.readlines(): every line from offset pos to the end
\* of the file as it is now, the newline kept, a last line without newline
\* included.  off is the offset of the line in the file.
RECURSIVE readlines(_, _)
readlines(f, pos) ==
    IF pos >= Len(f) THEN <<>>
    ELSE LET e == LineEnd(f, pos + 1)
         IN  <<[off |-> pos, raw |-> SubSeq(f, pos + 1, e)]>> \o readlines(f, e)

\* fbuf.tell() after readlines(): the end of the file as it was read.
tell(f) == Len(f)

\* line.decode('utf-8').replace("\n", "")
StripNewline(raw) == SelectSeq(raw, LAMBDA t : t # NL)

\* json.loads(line): the parsed value when the text is the whole text of a
\* record, a JSONDecodeError for anything else (half a record, an empty line,
\* the second half of a record on a line of its own).
json_loads(text) ==
    IF \E k \in Keys : text = Dump(k)
    THEN [ok |-> TRUE, value |-> Doc(CHOOSE k \in Keys : text = Dump(k))]
    ELSE [ok |-> FALSE, value |-> [output |-> "JSONDecodeError"]]

Has(d, key) == key \in DOMAIN d

\* Lines 153-161: the event built from a parsed record, or the KeyError of
\* the first subscript that fails (caught at lines 165-167).
BuildEvent(json_data) ==
    LET of == json_data["output_fields"]
    IN  IF /\ Has(of, "container.image.repository")
           /\ Has(json_data, "output") /\ Has(json_data, "priority")
           /\ Has(json_data, "rule") /\ Has(json_data, "time")
        THEN <<[container_id |-> of["container.id"],
                image_name |->
                    IF Has(of, "container.image.tag")
                    THEN of["container.image.repository"] \o ":"
                             \o of["container.image.tag"]
                    ELSE of["container.image.repository"],
                output |-> json_data["output"],
                priority |-> json_data["priority"],
                rule |-> json_data["rule"],
                time |-> json_data["time"]]>>
        ELSE <<>>

\* Records of the host are taken for records of a container.
IsContainer_Always(container_id) == TRUE

\* Line 151: is the record about a container (and not about the host)?
IsContainer(container_id) == container_id # "host"

\* Lines 147-167, the body of "for line in content" for one line: the
\* exception that leaves the loop ("" when none does) and the events the
\* line appends to sysdig_falco_events.
ProcessLine(raw) ==
    LET parsed == json_loads(StripNewline(raw))
    IN  IF ~parsed.ok
        THEN [raised |-> "JSONDecodeError", events |-> <<>>]
        ELSE LET json_data == parsed.value
             IN  IF ~Has(json_data, "output_fields")
                    \/ ~Has(json_data["output_fields"], "container.id")
                 THEN [raised |-> "KeyError", events |-> <<>>]
                 ELSE IF IsContainer(json_data["output_fields"]["container.id"])
                      THEN [raised |-> "", events |-> BuildEvent(json_data)]
                      ELSE [raised |-> "", events |-> <<>>]

\* The event is put in front of the list.
AppendItems_InFront(items, new) == new \o items

\* Line 161: sysdig_falco_events.append(falco_event).  An item is the event
\* with the file offset of the line it was built from.
AppendItems(items, new) == items \o new

\* Lines 145-167: the for loop over content from line i on; items is
\* sysdig_falco_events so far.  The loop ends at the first exception.
RECURSIVE ProcessContent(_, _, _)
ProcessContent(content, i, items) ==
    IF i > Len(content)
    THEN [raised |-> "", items |-> items]
    ELSE LET r == ProcessLine(content[i].raw)
         IN  IF r.raised # ""
             THEN [raised |-> r.raised, items |-> items]
             ELSE ProcessContent(content, i + 1,
                      AppendItems(items,
                          [n \in 1..Len(r.events) |->
                              [off |-> content[i].off, event |-> r.events[n]]]))

Events(items) == [n \in 1..Len(items) |-> items[n].event]
Origins(items) == [n \in 1..Len(items) |-> items[n].off]

\* ------------------------------------------------- the falco log parser
\* A text is a sequence of tokens: words, the blank SP and the newline NL.
SP == " "

\* datetime.datetime.now().strftime("%A")[:3] + ' ', on a Thursday.
date_prefix == <<"Thu", SP>>

\* The lines the explored logs are made of: a line of falco's own log, two
\* rule lines, two continuation lines (indented), an empty line.
LogLines ==
    { <<"Thu", SP, "falco">>,
      <<"Rule", SP, "A">>,
      <<"Rule", SP, "B">>,
      <<SP, "c1">>,
      <<SP, "c2">> ,
      <<>> }

\* "\n".join(lines)
RECURSIVE JoinLines(_)
JoinLines(lines) ==
    IF Len(lines) = 0 THEN <<>>
    ELSE IF Len(lines) = 1 THEN lines[1]
    ELSE lines[1] \o <<NL>> \o JoinLines(Tail(lines))

\* text.split("\n"): the lines between the newlines (one empty line for an
\* empty text).
RECURSIVE split(_)
split(text) ==
    IF \E i \in 1..Len(text) : text[i] = NL
    THEN LET i == CHOOSE n \in 1..Len(text) :
                      text[n] = NL /\ \A m \in 1..(n - 1) : text[m] # NL
         IN  <<SubSeq(text, 1, i - 1)>> \o split(SubSeq(text, i + 1, Len(text)))
    ELSE <<text>>

\* line.startswith(prefix)
startswith(line, prefix) ==
    /\ Len(line) >= Len(prefix)
    /\ SubSeq(line, 1, Len(prefix)) = prefix

\* line.strip(): without the blanks at both ends.
RECURSIVE strip(_)
strip(line) ==
    IF line # <<>> /\ Head(line) = SP THEN strip(Tail(line))
    ELSE IF line # <<>> /\ line[Len(line)] = SP
         THEN strip(SubSeq(line, 1, Len(line) - 1))
         ELSE line

\* "Rule " in sysdig_falco_logs, line 135.
ContainsRule(text) ==
    \E i \in 1..(Len(text) - 1) : text[i] = "Rule" /\ text[i + 1] = SP

\* Line 222: is the accumulated warning logged when a rule line comes?
ShouldFlush(warning) == warning # <<>>

\* Lines 218-225: the for loop from line i on.  warning is the accumulated
\* text, logged the messages given to DagdaLogger.get_logger().warning so
\* far.  Nothing is logged after the loop.
RECURSIVE ParseLines(_, _, _, _)
ParseLines(lines, i, warning, logged) ==
    IF i > Len(lines) THEN logged
    ELSE IF startswith(lines[i], date_prefix)
         THEN ParseLines(lines, i + 1, warning, logged)
         ELSE LET line == strip(lines[i])
              IN  IF startswith(line, <<"Rule", SP>>)
                  THEN ParseLines(lines, i + 1, <<SP>> \o line,
                           IF ShouldFlush(warning)
                           THEN Append(logged, strip(warning))
                           ELSE logged)
                  ELSE ParseLines(lines, i + 1, warning \o <<SP>> \o line,
                                  logged)

\* _parse_log_and_show_dagda_warnings(sysdig_falco_logs), lines 213-225: the
\* messages it gives to the warning logger, in order.
parse_log_and_show_dagda_warnings(sysdig_falco_logs) ==
    ParseLines(split(sysdig_falco_logs), 1, <<>>, <<>>)

\* ------------------------------------------------------------------ state
VARIABLES
    external,             \* InternalServer.is_external_falco()
    host,                 \* what pre_check() read from the host, lines 63-76
    pc,                   \* where the supervisor is in pre_check() / run()
    err,                  \* message of the exception that ended it, "" if none
    ops,                  \* docker_driver / mongodb_driver calls made so far,
                          \* except bulk inserts: <<name, container id or 0>>
    containers,           \* falcosecurity/falco:0.29.0 containers that exist
    running,              \* those of them that are running
    nextId,               \* id the engine gives the next created container
    running_container_id, \* self.running_container_id (NoId is '')
    container_ids,        \* container_ids of pre_check(), line 94
    fileExists,           \* os.path.isfile(_falco_output_filename)
    file,                 \* content of the falco output file
    last_file_position,   \* last_file_position of run()
    bulk_inserts,         \* arguments of the bulk_insert_sysdig_falco_events
                          \* calls made so far, in call order
    cycleLog,             \* one entry per iteration of the while loop
    sysdig_falco_logs,    \* sysdig_falco_logs of run(), line 134
    warnings              \* messages given to the warning logger by the
                          \* log parser, in order

vars == <<external, host, pc, err, ops, containers, running, nextId,
          running_container_id, container_ids, fileExists, file,
          last_file_position, bulk_inserts, cycleLog, sysdig_falco_logs,
          warnings>>

NoId == 0
PreIds == 1..MaxPre

engineVars == <<containers, running, nextId>>
tailVars == <<last_file_position, bulk_inserts, cycleLog>>
fileVars == <<fileExists, file>>
logVars == <<sysdig_falco_logs, warnings>>

\* The host facts before pre_check() has read them.
Unread == [read |-> FALSE, linux_distro |-> "", dockerenv |-> FALSE,
           return_code |-> 0]

Init ==
    /\ external \in BOOLEAN
    /\ host = Unread
    /\ pc = "idle"
    /\ err = ""
    /\ ops = <<>>
    /\ containers \in SUBSET PreIds
    /\ running = containers
    /\ nextId = MaxPre + 1
    /\ running_container_id = NoId
    /\ container_ids = <<>>
    /\ fileExists \in BOOLEAN
    /\ file = <<>>
    /\ last_file_position = 0
    /\ bulk_inserts = <<>>
    /\ cycleLog = <<>>
    /\ sysdig_falco_logs = <<>>
    /\ warnings = <<>>

\* ------------------------------------------------ the execution engine
\* The docker driver behind the calls of the monitor (its interface only).
RECURSIVE SortedSeq(_)
SortedSeq(S) ==
    IF S = {} THEN <<>>
    ELSE LET m == CHOOSE x \in S : \A y \in S : x <= y
         IN  <<m>> \o SortedSeq(S \ {m})

\* get_docker_container_ids_by_image_name('falcosecurity/falco:0.29.0')
ListByImage == SortedSeq(running)

Call(name, id) == <<name, id>>

\* docker_stop(id) then docker_remove_container(id) for each id of ids.
RECURSIVE StopAndRemoveCalls(_)
StopAndRemoveCalls(ids) ==
    IF ids = <<>> THEN <<>>
    ELSE <<Call("stop", Head(ids)), Call("remove", Head(ids))>>
             \o StopAndRemoveCalls(Tail(ids))

Range(q) == {q[i] : i \in 1..Len(q)}

\* self._start_container(...), lines 180-208: get_docker_client() for the
\* host config, create_container, docker_start; returns the new id.
StartContainerCalls(id) ==
    <<Call("client", NoId), Call("create", id), Call("start", id)>>

Raise(message) ==
    /\ pc' = "failed"
    /\ err' = message

\* The flag is not looked at: the sensor is always taken as self managed.
SelfManaged_Always == TRUE

\* "not InternalServer.is_external_falco()", lines 61, 117, 128, 133.
SelfManaged == ~external

\* ------------------------------------------------------------ pre_check
\* Line 61, externally managed output: pre_check() does nothing.
PreCheck_External ==
    /\ pc = "idle"
    /\ ~SelfManaged
    /\ pc' = "prechecked"
    /\ UNCHANGED <<external, logVars, host, err, ops, engineVars, running_container_id,
                   container_ids, fileVars, tailVars>>

\* The return code of rpm / dpkg is not looked at.
HeadersCheck_IgnoresReturnCode(linux_distro, return_code) ==
    IF linux_distro \in {"Red Hat", "CentOS", "Fedora", "openSUSE",
                         "Debian", "Ubuntu"}
    THEN ""
    ELSE "Linux distribution not supported yet."

\* Lines 68-81: the result of the kernel headers check outside a container.
\* "" when the headers package is found.
HeadersCheck(linux_distro, return_code) ==
    IF linux_distro \in {"Red Hat", "CentOS", "Fedora", "openSUSE",
                         "Debian", "Ubuntu"}
    THEN IF return_code # 0
         THEN "The kernel headers are not installed in the host operating system."
         ELSE ""
    ELSE "Linux distribution not supported yet."

\* Lines 63-84: the requirements check.  The distribution, /.dockerenv and
\* the return code of rpm / dpkg are read from the host.
PreCheck_Requirements ==
    /\ pc = "idle"
    /\ SelfManaged
    /\ \E linux_distro \in {"CentOS", "Ubuntu", "Alpine"},
          dockerenv \in BOOLEAN, return_code \in {0, 1} :
          /\ host' = [read |-> TRUE, linux_distro |-> linux_distro,
                      dockerenv |-> dockerenv, return_code |-> return_code]
          /\ LET failure == IF dockerenv THEN ""
                            ELSE HeadersCheck(linux_distro, return_code)
             IN  IF failure # "" THEN Raise(failure)
                 ELSE pc' = "check_driver" /\ err' = err
    /\ UNCHANGED <<external, logVars, ops, engineVars, running_container_id,
                   container_ids, fileVars, tailVars>>

\* The image is pulled before the docker client is checked.
PreCheck_DockerClient_AfterPull ==
    /\ pc = "check_driver"
    /\ ops' = ops \o <<Call("pull", NoId), Call("client", NoId)>>
    /\ \E client_is_none \in BOOLEAN :
          IF client_is_none
          THEN Raise("Error while fetching Docker server API version.")
          ELSE pc' = "pull" /\ err' = err
    /\ UNCHANGED <<external, logVars, host, engineVars, running_container_id,
                   container_ids, fileVars, tailVars>>

\* Lines 87-88: get_docker_client() is None?
PreCheck_DockerClient ==
    /\ pc = "check_driver"
    /\ ops' = Append(ops, Call("client", NoId))
    /\ \E client_is_none \in BOOLEAN :
          IF client_is_none
          THEN Raise("Error while fetching Docker server API version.")
          ELSE pc' = "pull" /\ err' = err
    /\ UNCHANGED <<external, logVars, host, engineVars, running_container_id,
                   container_ids, fileVars, tailVars>>

\* Line 91: docker_pull('falcosecurity/falco', tag='0.29.0')
PreCheck_Pull ==
    /\ pc = "pull"
    /\ ops' = Append(ops, Call("pull", NoId))
    /\ pc' = "stop_old"
    /\ UNCHANGED <<external, logVars, host, err, engineVars, running_container_id,
                   container_ids, fileVars, tailVars>>

\* Lines 94-98: stop and remove the falco containers found.
PreCheck_StopOld ==
    /\ pc = "stop_old"
    /\ container_ids' = ListByImage
    /\ ops' = Append(ops, Call("list", NoId))
                  \o StopAndRemoveCalls(container_ids')
    /\ running' = running \ Range(container_ids')
    /\ containers' = containers \ Range(container_ids')
    /\ pc' = "purge"
    /\ UNCHANGED <<external, logVars, host, err, nextId, running_container_id,
                   fileVars, tailVars>>

\* Line 101: delete_falco_events_collection()
PreCheck_Purge ==
    /\ pc = "purge"
    /\ ops' = Append(ops, Call("purge", NoId))
    /\ pc' = "probe_start"
    /\ UNCHANGED <<external, logVars, host, err, engineVars, running_container_id,
                   container_ids, fileVars, tailVars>>

\* Line 105: the throwaway container, without entrypoint.
PreCheck_Start ==
    /\ pc = "probe_start"
    /\ ops' = ops \o StartContainerCalls(nextId)
    /\ containers' = containers \cup {nextId}
    /\ running' = running \cup {nextId}
    /\ running_container_id' = nextId
    /\ nextId' = nextId + 1
    /\ pc' = "probe_logs"
    /\ UNCHANGED <<external, logVars, host, err, container_ids, fileVars, tailVars>>

\* The throwaway container is removed without being stopped.
PreCheck_Probe_NoStop ==
    /\ pc = "probe_logs"
    /\ \E device_error_in_logs \in BOOLEAN :
          IF ~device_error_in_logs
          THEN /\ ops' = ops \o <<Call("logs", running_container_id),
                                  Call("remove", running_container_id)>>
               /\ running' = running \ {running_container_id}
               /\ containers' = containers \ {running_container_id}
               /\ pc' = "prechecked"
               /\ err' = err
               /\ host' = Unread
               /\ container_ids' = <<>>
          ELSE /\ ops' = Append(ops, Call("logs", running_container_id))
               /\ Raise("Runtime error opening device /host/dev/sysdig0.")
               /\ UNCHANGED <<containers, running, host, container_ids>>
    /\ UNCHANGED <<external, logVars, nextId, running_container_id, fileVars, tailVars>>

\* The throwaway container is stopped but never removed.
PreCheck_Probe_NoRemove ==
    /\ pc = "probe_logs"
    /\ \E device_error_in_logs \in BOOLEAN :
          IF ~device_error_in_logs
          THEN /\ ops' = ops \o <<Call("logs", running_container_id),
                                  Call("stop", running_container_id)>>
               /\ running' = running \ {running_container_id}
               /\ pc' = "prechecked"
               /\ err' = err
               /\ host' = Unread
               /\ container_ids' = <<>>
               /\ UNCHANGED containers
          ELSE /\ ops' = Append(ops, Call("logs", running_container_id))
               /\ Raise("Runtime error opening device /host/dev/sysdig0.")
               /\ UNCHANGED <<containers, running, host, container_ids>>
    /\ UNCHANGED <<external, logVars, nextId, running_container_id, fileVars, tailVars>>

\* Lines 107-113, after the sleep of line 106: the logs of the throwaway
\* container decide between stop + remove and the device error.  On return
\* the locals of pre_check() (what it read from the host, container_ids) are
\* gone.
PreCheck_Probe ==
    /\ pc = "probe_logs"
    /\ \E device_error_in_logs \in BOOLEAN :
          IF ~device_error_in_logs
          THEN /\ ops' = ops \o <<Call("logs", running_container_id),
                                  Call("stop", running_container_id),
                                  Call("remove", running_container_id)>>
               /\ running' = running \ {running_container_id}
               /\ containers' = containers \ {running_container_id}
               /\ pc' = "prechecked"
               /\ err' = err
               /\ host' = Unread
               /\ container_ids' = <<>>
          ELSE /\ ops' = Append(ops, Call("logs", running_container_id))
               /\ Raise("Runtime error opening device /host/dev/sysdig0.")
               /\ UNCHANGED <<containers, running, host, container_ids>>
    /\ UNCHANGED <<external, logVars, nextId, running_container_id, fileVars, tailVars>>

\* Lines 174-175.
get_running_container_id == running_container_id

\* ------------------------------------------------------------------ run
\* The id of the container started is not kept.
Run_Start_IdNotKept ==
    /\ pc = "prechecked"
    /\ IF SelfManaged
       THEN /\ ops' = ops \o StartContainerCalls(nextId)
            /\ containers' = containers \cup {nextId}
            /\ running' = running \cup {nextId}
            /\ nextId' = nextId + 1
            /\ UNCHANGED running_container_id
       ELSE UNCHANGED <<ops, engineVars, running_container_id>>
    /\ pc' = "verify"
    /\ UNCHANGED <<external, logVars, host, err, container_ids, fileVars, tailVars>>

\* Lines 117-124: the production container, with the falco command line.
Run_Start ==
    /\ pc = "prechecked"
    /\ IF SelfManaged
       THEN /\ ops' = ops \o StartContainerCalls(nextId)
            /\ containers' = containers \cup {nextId}
            /\ running' = running \cup {nextId}
            /\ running_container_id' = nextId
            /\ nextId' = nextId + 1
       ELSE UNCHANGED <<ops, engineVars, running_container_id>>
    /\ pc' = "verify"
    /\ UNCHANGED <<external, logVars, host, err, container_ids, fileVars, tailVars>>

\* Only the output file is checked, not the running container.
Run_Verify_FileOnly ==
    /\ pc = "verify"
    /\ IF ~fileExists
       THEN /\ Raise("Falcosecurity/falco output file not found.")
            /\ ops' = ops
       ELSE /\ ops' = ops
            /\ pc' = "review_logs" /\ err' = err
    /\ UNCHANGED <<external, logVars, host, engineVars, running_container_id,
                   container_ids, fileVars, tailVars>>

\* Lines 127-130: the output file and the running container.  The container
\* list is not asked for when the file is missing or the output is external.
Run_Verify ==
    /\ pc = "verify"
    /\ IF ~fileExists
       THEN /\ Raise("Falcosecurity/falco output file not found.")
            /\ ops' = ops
       ELSE IF SelfManaged
            THEN /\ ops' = Append(ops, Call("list", NoId))
                 /\ IF Len(ListByImage) = 0
                    THEN Raise("Falcosecurity/falco output file not found.")
                    ELSE pc' = "review_logs" /\ err' = err
            ELSE /\ ops' = ops
                 /\ pc' = "review_logs" /\ err' = err
    /\ UNCHANGED <<external, logVars, host, engineVars, running_container_id,
                   container_ids, fileVars, tailVars>>

\* The logs of the falco container that run() reviews: falco's own log
\* line alone, or followed by two rules with their continuation lines.
ContainerLogs ==
    { JoinLines(<< <<"Thu", SP, "falco">> >>),
      JoinLines(<< <<"Thu", SP, "falco">>, <<"Rule", SP, "A">>, <<SP, "c1">>,
                   <<"Rule", SP, "B">>, <<SP, "c2">> >>) }

\* Lines 133-141: the logs of the production container are fetched when the
\* sensor is self managed and, when they hold "Rule ", parsed for warnings;
\* then the output file is opened.
Run_ReviewLogs ==
    /\ pc = "review_logs"
    /\ IF SelfManaged
       THEN /\ ops' = Append(ops, Call("logs", running_container_id))
            /\ \E logs \in ContainerLogs :
                  /\ sysdig_falco_logs' = logs
                  /\ warnings' = IF ContainsRule(logs)
                                 THEN parse_log_and_show_dagda_warnings(logs)
                                 ELSE <<>>
       ELSE UNCHANGED <<ops, logVars>>
    /\ last_file_position' = 0
    /\ pc' = "tailing"
    /\ UNCHANGED <<external, host, err, engineVars, running_container_id,
                   container_ids, fileVars, bulk_inserts, cycleLog>>

\* The batch is forwarded even when it is empty.
ShouldInsert_Always(sysdig_falco_events) == TRUE

\* Line 169: is the batch forwarded?
ShouldInsert(sysdig_falco_events) == Len(sysdig_falco_events) > 0

\* Every iteration reads the file from its start.
seek_FromStart(position) == 0

\* Line 143: fbuf.seek(last_file_position), the offset read from.
seek(position) == position

\* The position is set to the size of what was read, not to the offset.
AdvancedPosition_Relative(f, position) == Len(f) - position

\* Line 168: last_file_position = fbuf.tell(), with f the file as it was
\* read from offset position.
AdvancedPosition(f, position) == tell(f)

\* Lines 142-171: one iteration of the while loop.  An exception of the for
\* loop leaves run(): nothing is inserted and the position is not updated.
\* The entry of cycleLog records what the iteration did: the position it
\* read from, the end of the file it read to, the position it left, the
\* content of sysdig_falco_events with the offsets of the lines, the
\* exception, the number of bulk insert calls made so far.
TailCycle ==
    /\ pc = "tailing"
    /\ Len(cycleLog) < MaxCycles
    /\ LET from == seek(last_file_position)
           content == readlines(file, from)
           r == ProcessContent(content, 1, <<>>)
           sysdig_falco_events == Events(r.items)
       IN  /\ IF r.raised # ""
              THEN /\ Raise(r.raised)
                   /\ UNCHANGED <<last_file_position, bulk_inserts>>
              ELSE /\ last_file_position' = AdvancedPosition(file, from)
                   /\ bulk_inserts' =
                          IF ShouldInsert(sysdig_falco_events)
                          THEN Append(bulk_inserts, sysdig_falco_events)
                          ELSE bulk_inserts
                   /\ UNCHANGED <<pc, err>>
           /\ cycleLog' = Append(cycleLog,
                  [from |-> from, eof |-> Len(file),
                   to |-> last_file_position',
                   events |-> sysdig_falco_events,
                   origins |-> Origins(r.items),
                   raised |-> r.raised,
                   ncalls |-> Len(bulk_inserts')])
    /\ UNCHANGED <<external, logVars, host, ops, engineVars, running_container_id,
                   container_ids, fileVars>>

\* ------------------------------------------------------- the environment
\* Nothing reads the output file before line 127 or after run() has ended:
\* the sensor's writes are modelled from the moment run() looks at the file,
\* and what it wrote earlier is what it writes before the file is opened.
Observed == pc \in {"verify", "review_logs", "tailing"}

\* The sensor appends a whole record to the output file (which it creates
\* when it is missing).
SensorWrite(k) ==
    /\ Observed
    /\ ~MidRecord(file)
    /\ NumRecords(file) < MaxRecords
    /\ file' = file \o Dump(k) \o <<NL>>
    /\ fileExists' = TRUE
    /\ UNCHANGED <<external, logVars, host, pc, err, ops, engineVars,
                   running_container_id, container_ids, tailVars>>

\* The sensor appends the first half of a record ...
SensorWriteBegin(k) ==
    /\ Observed
    /\ ~MidRecord(file)
    /\ NumRecords(file) < MaxRecords
    /\ file' = Append(file, FirstHalf(k))
    /\ fileExists' = TRUE
    /\ UNCHANGED <<external, logVars, host, pc, err, ops, engineVars,
                   running_container_id, container_ids, tailVars>>

\* ... and later the rest of it.
SensorWriteEnd ==
    /\ Observed
    /\ MidRecord(file)
    /\ LET k == CHOOSE x \in Keys : file[Len(file)] = FirstHalf(x)
       IN  file' = file \o <<SecondHalf(k), NL>>
    /\ UNCHANGED <<external, logVars, host, pc, err, ops, engineVars,
                   running_container_id, container_ids, fileExists, tailVars>>

\* The container the monitor started exits on its own (falco could not
\* start) while the monitor waits at line 106 or line 124.
ContainerExits(id) ==
    /\ pc \in {"probe_logs", "verify"}
    /\ id = running_container_id
    /\ id \in running
    /\ running' = running \ {id}
    /\ UNCHANGED <<external, logVars, host, pc, err, ops, containers, nextId,
                   running_container_id, container_ids, fileVars, tailVars>>

Next ==
    \/ PreCheck_External
    \/ PreCheck_Requirements
    \/ PreCheck_DockerClient
    \/ PreCheck_Pull
    \/ PreCheck_StopOld
    \/ PreCheck_Purge
    \/ PreCheck_Start
    \/ PreCheck_Probe
    \/ Run_Start
    \/ Run_Verify
    \/ Run_ReviewLogs
    \/ TailCycle
    \/ \E k \in Keys : SensorWrite(k)
    \/ \E k \in Keys : SensorWriteBegin(k)
    \/ SensorWriteEnd
    \/ \E id \in running : ContainerExits(id)

Spec == Init /\ [][Next]_vars

\* ------------------------------------------- the log parser on its own
\* Every text of at most MaxLogLines lines.
LogTexts ==
    {JoinLines(ls) : ls \in UNION {[1..m -> LogLines] : m \in 0..MaxLogLines}}

InitParse ==
    /\ external = FALSE
    /\ host = Unread
    /\ pc = "parse"
    /\ err = ""
    /\ ops = <<>>
    /\ containers = {}
    /\ running = {}
    /\ nextId = MaxPre + 1
    /\ running_container_id = NoId
    /\ container_ids = <<>>
    /\ fileExists = FALSE
    /\ file = <<>>
    /\ last_file_position = 0
    /\ bulk_inserts = <<>>
    /\ cycleLog = <<>>
    /\ sysdig_falco_logs \in LogTexts
    /\ warnings = <<>>

\* One call of _parse_log_and_show_dagda_warnings, lines 213-225.
ParseLog ==
    /\ pc = "parse"
    /\ warnings' = parse_log_and_show_dagda_warnings(sysdig_falco_logs)
    /\ pc' = "parsed"
    /\ UNCHANGED <<external, host, err, ops, engineVars, running_container_id,
                   container_ids, fileVars, tailVars, sysdig_falco_logs>>

NextParse == ParseLog

SpecParse == InitParse /\ [][NextParse]_vars

\* ============================================================== properties
Cycles == 1..Len(cycleLog)

\* The lines iteration i of the loop read: the file is only appended to, so
\* they are the lines of its first eof tokens from the offset read from.
CycleContent(i) ==
    readlines(SubSeq(file, 1, cycleLog[i].eof), cycleLog[i].from)

\* Number of bulk insert calls made before iteration i.
CallsBefore(i) == IF i = 1 THEN 0 ELSE cycleLog[i - 1].ncalls
\* Iteration i called bulk_insert_sysdig_falco_events.
Inserted(i) == cycleLog[i].ncalls > CallsBefore(i)

\* The bulk insert calls are those of the iterations, one at most for each,
\* with sysdig_falco_events as argument.
CallsAreOfCycles ==
    /\ Len(cycleLog) > 0 => Len(bulk_inserts) = cycleLog[Len(cycleLog)].ncalls
    /\ Len(cycleLog) = 0 => bulk_inserts = <<>>
    /\ \A i \in Cycles :
          /\ cycleLog[i].ncalls \in {CallsBefore(i), CallsBefore(i) + 1}
          /\ Inserted(i) => bulk_inserts[cycleLog[i].ncalls] = cycleLog[i].events

RequiredFields == {"output", "priority", "rule", "time"}
\* The record has every field the output file's contract requires.
Complete(d) ==
    /\ Has(d, "output_fields")
    /\ Has(d["output_fields"], "container.id")
    /\ Has(d["output_fields"], "container.image.repository")
    /\ \A x \in RequiredFields : Has(d, x)

IsRecord(raw, k) == StripNewline(raw) = Dump(k)
\* The line is a well-formed record of a container.
ContainerLine(raw) ==
    \E k \in Keys : /\ IsRecord(raw, k)
                    /\ Complete(Doc(k))
                    /\ Doc(k)["output_fields"]["container.id"] # "host"
\* The line is a record of the host.
HostLine(raw) ==
    \E k \in Keys : /\ IsRecord(raw, k)
                    /\ Has(Doc(k), "output_fields")
                    /\ Has(Doc(k)["output_fields"], "container.id")
                    /\ Doc(k)["output_fields"]["container.id"] = "host"
\* The line is not valid JSON, or lacks a required field.
MalformedLine(raw) == ~\E k \in Keys : IsRecord(raw, k) /\ Complete(Doc(k))

\* C1: no line of the output file is forwarded to the event store more than
\* once: the events passed to bulk_insert come from pairwise different lines,
\* each bulk_insert call is the batch of one iteration, and an iteration
\* never reads below the end of what an earlier iteration read.
C1_ForwardedAtMostOnce ==
    /\ CallsAreOfCycles
    /\ \A i, j \in Cycles :
          \A p \in DOMAIN cycleLog[i].origins, q \in DOMAIN cycleLog[j].origins :
              (Inserted(i) /\ Inserted(j) /\ <<i, p>> # <<j, q>>)
                  => cycleLog[i].origins[p] # cycleLog[j].origins[q]
    /\ \A i, j \in Cycles : i < j => cycleLog[j].from >= cycleLog[i].eof

\* Two iterations have each forwarded a batch.
C1_Witness == Len(bulk_inserts) >= 2 /\ Len(cycleLog) >= 2

\* C2: an iteration that reads a malformed or truncated line does not
\* raise, builds no event from that line and advances the position past it.
C2_MalformedLineSkipped ==
    \A i \in Cycles :
        \A n \in DOMAIN CycleContent(i) :
            MalformedLine(CycleContent(i)[n].raw) =>
                /\ cycleLog[i].raised = ""
                /\ pc = "tailing"
                /\ cycleLog[i].to = cycleLog[i].eof
                /\ \A p \in DOMAIN cycleLog[i].origins :
                       cycleLog[i].origins[p] # CycleContent(i)[n].off

\* The event the output file's contract asks for from record k.
ExpectedEvent(k) ==
    LET of == Doc(k)["output_fields"]
    IN  [container_id |-> of["container.id"],
         image_name |-> IF k = "A" THEN "nginx:1.21" ELSE "redis",
         output |-> Doc(k)["output"], priority |-> Doc(k)["priority"],
         rule |-> Doc(k)["rule"], time |-> Doc(k)["time"]]

\* C3: every well-formed record line of a container that an iteration reads
\* makes that iteration build exactly one event, with container_id, output,
\* priority, rule and time of the record and image_name repository:tag, or
\* the bare repository when the record has no tag.
C3_OneEventPerContainerLine ==
    \A i \in Cycles :
        \A n \in DOMAIN CycleContent(i) :
            LET line == CycleContent(i)[n]
            IN  ContainerLine(line.raw) =>
                    \E p \in DOMAIN cycleLog[i].origins :
                        /\ cycleLog[i].origins[p] = line.off
                        /\ \A q \in DOMAIN cycleLog[i].origins :
                               cycleLog[i].origins[q] = line.off => q = p
                        /\ \E k \in {"A", "B"} :
                               /\ IsRecord(line.raw, k)
                               /\ cycleLog[i].events[p] = ExpectedEvent(k)

\* C4: a record line of the host makes no iteration build an event, and no
\* event of the host is ever passed to bulk_insert.
C4_HostLineNeverForwarded ==
    /\ \A i \in Cycles :
          \A n \in DOMAIN CycleContent(i) :
              HostLine(CycleContent(i)[n].raw) =>
                  \A p \in DOMAIN cycleLog[i].origins :
                      cycleLog[i].origins[p] # CycleContent(i)[n].off
    /\ \A b \in DOMAIN bulk_inserts :
          \A p \in DOMAIN bulk_inserts[b] :
              bulk_inserts[b][p].container_id # "host"

\* An iteration has read a host line next to a container line and has
\* forwarded its batch.
C4_Witness ==
    \E i \in Cycles :
        /\ Inserted(i)
        /\ \E n \in DOMAIN CycleContent(i) : HostLine(CycleContent(i)[n].raw)

\* C5: an iteration that starts at the end of the file (nothing appended
\* since the position was set) builds no event, makes no bulk_insert call,
\* does not raise and leaves the position where it was.
C5_IdleCycleChangesNothing ==
    /\ Len(cycleLog) > 0 => Len(bulk_inserts) = cycleLog[Len(cycleLog)].ncalls
    /\ \A i \in Cycles :
          cycleLog[i].from = cycleLog[i].eof =>
              /\ cycleLog[i].events = <<>>
              /\ cycleLog[i].raised = ""
              /\ ~Inserted(i)
              /\ cycleLog[i].to = cycleLog[i].from

\* An iteration ran at the end of a file that an earlier one had read.
C5_Witness ==
    \E i \in Cycles :
        /\ i > 1
        /\ cycleLog[i].from = cycleLog[i].eof
        /\ cycleLog[i].from > 0

\* C6: last_file_position never decreases: every iteration leaves it at or
\* above where it found it, and starts from where the one before left it.
C6_CursorNeverDecreases ==
    /\ \A i \in Cycles :
          /\ cycleLog[i].to >= cycleLog[i].from
          /\ cycleLog[i].from = (IF i = 1 THEN 0 ELSE cycleLog[i - 1].to)
    /\ Len(cycleLog) > 0 =>
          last_file_position = cycleLog[Len(cycleLog)].to

\* Two iterations have advanced the position.
C6_Witness ==
    \E i \in Cycles :
        /\ i > 1
        /\ cycleLog[i].to > cycleLog[i].from
        /\ cycleLog[i].from > 0

\* C7: events reach the event store in file order: the batch of an
\* iteration lists its events in the order of their lines, and the lines of
\* a batch precede the lines of every batch inserted later.
C7_FileOrder ==
    /\ CallsAreOfCycles
    /\ \A i \in Cycles :
          \A p, q \in DOMAIN cycleLog[i].origins :
              p < q => cycleLog[i].origins[p] < cycleLog[i].origins[q]
    /\ \A i, j \in Cycles :
          (i < j /\ Inserted(i) /\ Inserted(j)) =>
              /\ cycleLog[i].ncalls < cycleLog[j].ncalls
              /\ \A p \in DOMAIN cycleLog[i].origins,
                    q \in DOMAIN cycleLog[j].origins :
                     cycleLog[i].origins[p] < cycleLog[j].origins[q]

\* A batch of two events has been inserted.
C7_Witness ==
    \E b \in DOMAIN bulk_inserts : Len(bulk_inserts[b]) >= 2

\* C8: with externally managed sensor output, pre_check() and run() make no
\* call to the docker driver (no client, pull, list, create, start, stop,
\* remove, logs) and no purge of the event store, and start no container.
C8_ExternalTouchesNoEngine ==
    external =>
        /\ ops = <<>>
        /\ nextId = MaxPre + 1
        /\ running_container_id = NoId
        /\ host = Unread
        /\ pc \in {"idle", "prechecked", "verify", "review_logs", "tailing",
                   "failed"}

\* With externally managed output, run() tails the file and forwards events.
C8_Witness ==
    /\ external
    /\ pc = "tailing"
    /\ bulk_inserts # <<>>

\* The kernel headers verification of pre_check() fails on this host.
HeadersVerificationFails ==
    /\ host.read
    /\ ~host.dockerenv
    /\ \/ host.linux_distro \notin {"CentOS", "Ubuntu"}
       \/ host.return_code # 0

\* C9: when pre_check() runs self managed outside a container and the
\* kernel headers verification fails, it ends with an error before any call
\* to the docker driver or the event store: nothing is pulled, stopped,
\* removed, purged, created or started.
C9_HeadersFailureAbortsFirst ==
    HeadersVerificationFails =>
        /\ pc = "failed"
        /\ err \in {"Linux distribution not supported yet.",
                    "The kernel headers are not installed in the host operating system."}
        /\ ops = <<>>
        /\ nextId = MaxPre + 1
        /\ running_container_id = NoId
        /\ bulk_inserts = <<>>

\* An Ubuntu host without the headers package, with a falco container
\* running: pre_check() has failed.
C9_Witness ==
    /\ host.read
    /\ ~host.dockerenv
    /\ host.linux_distro = "Ubuntu"
    /\ host.return_code = 1
    /\ pc = "failed"
    /\ running # {}

CallsOn(id) == {i \in 1..Len(ops) : ops[i][2] = id}
\* docker_stop(id) was called, and docker_remove_container(id) after it.
StoppedThenRemoved(id) ==
    \E i, j \in 1..Len(ops) :
        /\ i < j
        /\ ops[i] = Call("stop", id)
        /\ ops[j] = Call("remove", id)
\* The containers pre_check() found running or started.
FoundOrStarted ==
    {ops[i][2] : i \in {n \in 1..Len(ops) : ops[n][1] \in {"stop", "create"}}}

\* C10: when the logs of the throwaway container hold the device error,
\* pre_check() fails and the container is neither stopped nor removed;
\* otherwise it is stopped and then removed, and when pre_check() returns
\* no container it found or started is left.
C10_ThrowawayCleanup ==
    /\ err = "Runtime error opening device /host/dev/sysdig0." =>
          /\ pc = "failed"
          /\ running_container_id \in containers
          /\ Call("stop", running_container_id) \notin Range(ops)
          /\ Call("remove", running_container_id) \notin Range(ops)
    /\ (pc = "prechecked" /\ ~external) =>
          /\ running_container_id # NoId
          /\ ops[Len(ops) - 2] = Call("logs", running_container_id)
          /\ ops[Len(ops) - 1] = Call("stop", running_container_id)
          /\ ops[Len(ops)] = Call("remove", running_container_id)
          /\ \A id \in FoundOrStarted :
                StoppedThenRemoved(id) /\ id \notin containers

\* pre_check() has returned after removing a container it found and the
\* throwaway container.
C10_Witness ==
    /\ pc = "prechecked"
    /\ ~external
    /\ Cardinality(FoundOrStarted) >= 2

StartupError == "Falcosecurity/falco output file not found."

\* C11: run() goes on to the logs and the tailing loop only if the output
\* file exists and, when self managed, a falco container is running; when
\* one of them is absent it fails with the startup error, and then it has
\* not opened the file, fetched the logs of its container or made a bulk
\* insert.
C11_StartupVerified ==
    /\ (pc \in {"review_logs", "tailing"} \/ cycleLog # <<>>) =>
          /\ fileExists
          /\ ~external => running # {}
    /\ err = StartupError =>
          /\ pc = "failed"
          /\ ~fileExists \/ (~external /\ running = {})
          /\ cycleLog = <<>>
          /\ bulk_inserts = <<>>
          /\ last_file_position = 0
          /\ ~external => Call("logs", running_container_id) \notin Range(ops)
          /\ external => ops = <<>>

\* The file is there but the container run() started has exited: run() has
\* failed.
C11_Witness ==
    /\ err = StartupError
    /\ ~external
    /\ fileExists
    /\ running_container_id # NoId
    /\ running_container_id \notin running

\* The line starts a rule warning.
IsRuleLine(l) == startswith(strip(l), <<"Rule", SP>>)
\* The line continues the warning of the rule line before it.
IsContinuationLine(l) == l \in {<<SP, "c1">>, <<SP, "c2">>}
\* The lines of the text given to the log parser.
LogInput == split(sysdig_falco_logs)
RuleLineNumbers == {n \in 1..Len(LogInput) : IsRuleLine(LogInput[n])}

\* The text is two rule blocks: a rule line and its continuation lines,
\* then a second rule line and its continuation lines.
TwoRuleBlocks ==
    /\ Cardinality(RuleLineNumbers) = 2
    /\ 1 \in RuleLineNumbers
    /\ \A n \in 1..Len(LogInput) :
          n \notin RuleLineNumbers => IsContinuationLine(LogInput[n])
    /\ \A n \in RuleLineNumbers :
          n < Len(LogInput) /\ IsContinuationLine(LogInput[n + 1])

\* The block (first or second) that line n of a two block text is in.
BlockOf(n) == Cardinality({m \in RuleLineNumbers : m <= n})

\* C12: the log parser logs no warning for a text without a line starting
\* with "Rule ", and exactly two warnings for a text of two rule blocks
\* separated by continuation lines, the first with the rule and the
\* continuation text of the first block, the second with those of the
\* second block.
C12_TwoBlocksTwoWarnings ==
    pc = "parsed" =>
        /\ RuleLineNumbers = {} => warnings = <<>>
        /\ TwoRuleBlocks =>
              /\ Len(warnings) = 2
              /\ \A n \in 1..Len(LogInput) :
                    Range(strip(LogInput[n])) \subseteq Range(warnings[BlockOf(n)])

\* C20: every message the log parser gives to the warning logger is not
\* empty and begins with "Rule ".
C20_WarningsAreRuleWarnings ==
    pc = "parsed" =>
        \A n \in 1..Len(warnings) :
            /\ warnings[n] # <<>>
            /\ startswith(warnings[n], <<"Rule", SP>>)

\* The containers the monitor has created, and those it has removed.
CreatedIds == {ops[i][2] : i \in {n \in 1..Len(ops) : ops[n][1] = "create"}}
RemovedIds == {ops[i][2] : i \in {n \in 1..Len(ops) : ops[n][1] = "remove"}}
\* run() has launched the production container (the second container the
\* monitor creates, after the throwaway one of pre_check()).
Launched == ~external /\ Cardinality(CreatedIds) = 2

\* C13: self managed, from the launch of run() after a successful
\* pre_check() on, exactly one container created by the monitor exists
\* (created and not removed), and get_running_container_id() returns its id.
C13_OneProductionInstance ==
    Launched =>
        /\ CreatedIds \cap containers = {get_running_container_id}
        /\ CreatedIds \ RemovedIds = {get_running_container_id}

\* The production container is there while run() tails the file.
C13_Witness ==
    /\ Launched
    /\ pc = "tailing"
    /\ cycleLog # <<>>

DeviceError == "Runtime error opening device /host/dev/sysdig0."
\* run() has entered its tailing loop.
ReachedTailing == pc = "tailing" \/ cycleLog # <<>>
\* The monitor no longer uses the handle of container id: it has stored
\* another id, or the operation that held it has failed.
Discarded(id) == id # running_container_id \/ pc = "failed"

\* C14 as claimed: every container the monitor started is stopped and
\* removed before its handle is discarded (overwritten, or abandoned by a
\* failed operation), except the production container that reached the
\* tailing loop.
C14_StoppedBeforeDiscarded ==
    \A id \in CreatedIds :
        (Discarded(id) /\ ~(id = running_container_id /\ ReachedTailing))
            => StoppedThenRemoved(id)

\* C14 as amended: a container the monitor started is stopped and then
\* removed before its handle is overwritten; the container of an operation
\* that fails (device error in pre_check(), startup verification in run())
\* is left as it is, neither stopped nor removed.
C14_StoppedBeforeOverwritten ==
    /\ \A id \in CreatedIds :
          id # running_container_id =>
              StoppedThenRemoved(id) /\ id \notin containers
    /\ (~external /\ err \in {DeviceError, StartupError}
            /\ running_container_id # NoId) =>
          /\ running_container_id \in containers
          /\ Call("stop", running_container_id) \notin Range(ops)
          /\ Call("remove", running_container_id) \notin Range(ops)

\* run() has overwritten the handle of the throwaway container and its own
\* container has failed the startup verification.
C14_Witness ==
    /\ ~external
    /\ err = StartupError
    /\ Cardinality(CreatedIds) = 2

\* The offsets of the lines iteration i read.
OffsetsRead(i) == {CycleContent(i)[n].off : n \in DOMAIN CycleContent(i)}
\* The line was written whole: it ends with its newline.
WholeLine(raw) == raw # <<>> /\ raw[Len(raw)] = NL
\* The event of the line at offset off is in the batch iteration i passed
\* to bulk_insert.
ForwardedBy(i, off) ==
    /\ Inserted(i)
    /\ \E p \in DOMAIN cycleLog[i].origins :
          /\ cycleLog[i].origins[p] = off
          /\ bulk_inserts[cycleLog[i].ncalls][p] = cycleLog[i].events[p]

\* C15: an iteration makes at most one bulk_insert call, makes it exactly
\* when it built one or more events, and passes exactly the events built
\* from the lines it read: never an empty batch, never events of another
\* iteration.
C15_OneBatchPerCycle ==
    \A i \in Cycles :
        /\ cycleLog[i].ncalls \in {CallsBefore(i), CallsBefore(i) + 1}
        /\ cycleLog[i].ncalls <= Len(bulk_inserts)
        /\ Inserted(i) <=> Len(cycleLog[i].events) >= 1
        /\ Inserted(i) =>
              /\ bulk_inserts[cycleLog[i].ncalls] = cycleLog[i].events
              /\ bulk_inserts[cycleLog[i].ncalls] # <<>>
              /\ Range(cycleLog[i].origins) \subseteq OffsetsRead(i)

\* C16: a malformed line does not abort its batch: when an iteration reads
\* a malformed line together with well-formed container lines, the events
\* of those lines are forwarded by the bulk_insert of that iteration.
C16_MalformedLineKeepsBatch ==
    \A i \in Cycles :
        (\E n \in DOMAIN CycleContent(i) :
             MalformedLine(CycleContent(i)[n].raw)) =>
            \A m \in DOMAIN CycleContent(i) :
                ContainerLine(CycleContent(i)[m].raw) =>
                    ForwardedBy(i, CycleContent(i)[m].off)

\* The last line iteration i read is a record the sensor had not finished
\* writing.
SawPartialLine(i) ==
    /\ CycleContent(i) # <<>>
    /\ ~WholeLine(CycleContent(i)[Len(CycleContent(i))].raw)

\* C17: an iteration that sees a partially written last line does not fail
\* the monitor: the partial record is skipped (the position moves past it),
\* run() stays in its loop, and every record written whole before the
\* iteration read it is forwarded by it.
C17_PartialLineTolerated ==
    \A i \in Cycles :
        SawPartialLine(i) =>
            /\ cycleLog[i].raised = ""
            /\ cycleLog[i].to = cycleLog[i].eof
            /\ i = Len(cycleLog) => pc = "tailing"
            /\ \A m \in DOMAIN CycleContent(i) :
                   (WholeLine(CycleContent(i)[m].raw)
                        /\ ContainerLine(CycleContent(i)[m].raw)) =>
                       ForwardedBy(i, CycleContent(i)[m].off)

\* The lines of the whole output file.
FileLines == readlines(file, 0)

\* C18: every well-formed container record written whole to the output
\* file is in the end passed to bulk_insert: once run() has left its loop
\* no such record is left that no iteration has forwarded.
C18_EveryRecordForwarded ==
    (pc = "failed" /\ cycleLog # <<>>) =>
        \A n \in DOMAIN FileLines :
            (WholeLine(FileLines[n].raw) /\ ContainerLine(FileLines[n].raw)) =>
                \E i \in Cycles : ForwardedBy(i, FileLines[n].off)

EngineUnavailable == "Error while fetching Docker server API version."
\* The place of the purge of the event store among the calls.
PurgeAt == CHOOSE i \in 1..Len(ops) : ops[i] = Call("purge", NoId)

\* C19: in self managed pre_check() the check of the docker client comes
\* before every other call: when get_docker_client() returns None,
\* pre_check() fails with nothing pulled, listed, stopped, removed, purged,
\* created or started; and a pre_check() that succeeds has called, in this
\* order, the client check, the pull, the list with the stop and remove of
\* what it found, the purge, and the create and start of the throwaway
\* container.
C19_ClientCheckedFirst ==
    /\ (~external /\ ops # <<>>) => ops[1] = Call("client", NoId)
    /\ err = EngineUnavailable =>
          /\ pc = "failed"
          /\ ops = <<Call("client", NoId)>>
          /\ nextId = MaxPre + 1
          /\ running_container_id = NoId
    /\ (pc = "prechecked" /\ ~external) =>
          /\ ops[2] = Call("pull", NoId)
          /\ ops[3] = Call("list", NoId)
          /\ Cardinality({i \in 1..Len(ops) : ops[i] = Call("purge", NoId)}) = 1
          /\ PurgeAt > 3
          /\ \A i \in 4..(PurgeAt - 1) :
                /\ ops[i][1] = (IF i % 2 = 0 THEN "stop" ELSE "remove")
                /\ ops[i][2] \in PreIds
          /\ ops[PurgeAt + 1] = Call("client", NoId)
          /\ ops[PurgeAt + 2] = Call("create", running_container_id)
          /\ ops[PurgeAt + 3] = Call("start", running_container_id)
          /\ \A i \in 1..Len(ops) :
                ops[i][1] \in {"create", "start"} => i > PurgeAt

\* pre_check() has succeeded with a container to stop and remove before
\* the purge.
C19_Witness ==
    /\ pc = "prechecked"
    /\ ~external
    /\ \E i \in 1..Len(ops) : ops[i][1] = "remove" /\ i < PurgeAt

====
